---- MODULE Spec2Model ----
(***************************************************************************)
(* Model of the two command-line utilities of the repository:              *)
(*   github-api/findallbrokenprs.py   (the scanner)                        *)
(*   github-api/transfer_pr_bb2gh.py  (the transfer utility)               *)
(* One behaviour is one run of one of the two programs (variable prog).    *)
(* Remote services are the environment: every remote call draws its        *)
(* outcome from the set of outcomes the client library can deliver.        *)
(***************************************************************************)
EXTENDS Integers, Sequences, FiniteSets, TLC

VARIABLES prog, pc, args, env, items, idx, state_dir, files, calls, log, resps, bb_tags, repo

vars == <<prog, pc, args, env, items, idx, state_dir, files, calls, log, resps, bb_tags, repo>>

(* ------------------------------ bounds --------------------------------- *)
\* longest --pr / --pr-ids list enumerated
MaxItems == 2

(* --------------------------- Python values ----------------------------- *)
\* Optional values: None is the empty set, a present value v is {v}.
None == {}
Some(v) == {v}
TheVal(s) == CHOOSE v \in s : TRUE

\* a Python int / str value as passed to write_to_file
PyInt(n) == [t |-> "int", v |-> n]

Digits == <<"0", "1", "2", "3", "4", "5", "6", "7", "8", "9">>

\* str(n) for n >= 0: the decimal digits, most significant first
RECURSIVE Str(_)
Str(n) == IF n < 10 THEN <<Digits[n + 1]>>
          ELSE Str(n \div 10) \o <<Digits[(n % 10) + 1]>>

\* the complete (newline-terminated) lines of a text, without the newlines
RECURSIVE SplitLines(_, _)
SplitLines(text, cur) ==
    IF text = <<>> THEN <<>>
    ELSE IF Head(text) = "\n" THEN <<cur>> \o SplitLines(Tail(text), <<>>)
    ELSE SplitLines(Tail(text), Append(cur, Head(text)))

Lines(text) == SplitLines(text, <<>>)

\* list(range(a, b))
RangeSeq(a, b) == [k \in 1..(b - a) |-> a + k - 1]

\* all sequences over S of length 0..n
SeqsUpTo(S, n) == UNION {[1..k -> S] : k \in 0..n}

(* ============================ the scanner ============================== *)
BROKEN_PRS_FILE == "broken_prs.txt"
PR_NOT_FOUND_FILE == "pr_not_found.txt"
PR_EXCEPTIONS_FILE == "pr_exceptions.txt"
LAST_ISSUE_FILE == "last_issue.txt"

StateFiles == {BROKEN_PRS_FILE, PR_NOT_FOUND_FILE, PR_EXCEPTIONS_FILE, LAST_ISSUE_FILE}

NoFile == [exists |-> FALSE, content |-> <<>>]
NoFiles == [f \in StateFiles |-> NoFile]

\* PR numbers of the documented example run
ScanPRs == {18057, 32559, 99999999}
\* values offered for --start / --end
RangeVals == {18057, 18058, 18059}

\* outcomes of one item's remote calls: the PR lookup and, when it is
\* issued, the diff fetch (fields of a call that is not issued keep defaults)
ScanResps ==
    {[lookup |-> "unknown", commits |-> 0, diff_raise |-> FALSE, diff_status |-> 0],
     [lookup |-> "raise",   commits |-> 0, diff_raise |-> FALSE, diff_status |-> 0],
     [lookup |-> "found",   commits |-> 3, diff_raise |-> FALSE, diff_status |-> 0],
     [lookup |-> "found",   commits |-> 0, diff_raise |-> TRUE,  diff_status |-> 0]}
    \cup {[lookup |-> "found", commits |-> 0, diff_raise |-> FALSE, diff_status |-> s] :
              s \in {200, 404, 422}}

\* open(file, mode): creates the file; "a" keeps the content, "w" truncates
OpenFile(f, mode) ==
    [exists |-> TRUE, content |-> IF mode = "a" /\ f.exists THEN f.content ELSE <<>>]

\* write_to_file(file, data, mode='a', dry_run=False, newline=True) on the
\* file system fs.  f.write(data) raises TypeError unless data is a str.
write_to_file(fs, file, data, mode, dry_run, newline) ==
    IF dry_run
    THEN [fs |-> fs, raised |-> FALSE,
          log |-> <<[msg |-> "dry_write", pr |-> data.v, file |-> file]>>]
    ELSE LET f == OpenFile(fs[file], mode)
         IN IF newline
            THEN [fs |-> [fs EXCEPT ![file] =
                            [f EXCEPT !.content = @ \o Str(data.v) \o <<"\n">>]],
                  raised |-> FALSE, log |-> <<>>]
            ELSE IF data.t = "str"
            THEN [fs |-> [fs EXCEPT ![file] = [f EXCEPT !.content = @ \o data.v]],
                  raised |-> FALSE, log |-> <<>>]
            ELSE [fs |-> [fs EXCEPT ![file] = f], raised |-> TRUE, log |-> <<>>]

\* variant: the diff is fetched whatever the commit count
NeedsDiff_Always(pr) == TRUE

\* the decision to fetch the raw diff: pr.commits == 0
NeedsDiff(pr) == pr.commits = 0

\* response.status_code in [404, 422]
IsBrokenStatus(status) == status \in {404, 422}

Msg(m, n) == [msg |-> m, pr |-> n, file |-> ""]
Call(op, i, n, res) == [op |-> op, i |-> i, pr |-> n, res |-> res]

\* the inner part of the loop body, up to the write of the resume marker
ScanTry(fs, i, pr_number, resp, dry_run) ==
    LET c0 == <<Call("get_pull", i, pr_number, resp.lookup)>>
    IN IF resp.lookup = "raise"
       THEN [fs |-> fs, calls |-> c0, log |-> <<>>, raised |-> TRUE]
       ELSE IF resp.lookup = "unknown"
       THEN LET w == write_to_file(fs, PR_NOT_FOUND_FILE, PyInt(pr_number), "a", dry_run, TRUE)
            IN [fs |-> w.fs, calls |-> c0,
                log |-> <<Msg("not_found", pr_number)>> \o w.log, raised |-> w.raised]
       ELSE
         LET fetch == NeedsDiff(resp)
             c1 == IF fetch
                   THEN c0 \o <<Call("get_diff", i, pr_number,
                                     IF resp.diff_raise THEN "raise" ELSE "status")>>
                   ELSE c0
             l1 == IF fetch THEN <<Msg("suspicious", pr_number)>> ELSE <<>>
         IN IF fetch /\ resp.diff_raise
            THEN [fs |-> fs, calls |-> c1, log |-> l1, raised |-> TRUE]
            ELSE
              LET broken == fetch /\ IsBrokenStatus(resp.diff_status)
                  w1 == IF broken
                        THEN write_to_file(fs, BROKEN_PRS_FILE, PyInt(pr_number), "a", dry_run, TRUE)
                        ELSE [fs |-> fs, raised |-> FALSE, log |-> <<>>]
                  l2 == l1 \o (IF broken THEN <<Msg("no_diff", pr_number)>> ELSE <<>>) \o w1.log
              IN IF w1.raised
                 THEN [fs |-> w1.fs, calls |-> c1, log |-> l2, raised |-> TRUE]
                 ELSE LET w2 == write_to_file(w1.fs, LAST_ISSUE_FILE, PyInt(pr_number),
                                              "a", dry_run, FALSE)
                      IN [fs |-> w2.fs, calls |-> c1, log |-> l2 \o w2.log,
                          raised |-> w2.raised]

\* what the except clause of the loop body does with a caught exception
ScanExcept(t, pr_number, dry_run) ==
    LET w == write_to_file(t.fs, PR_EXCEPTIONS_FILE, PyInt(pr_number), "a", dry_run, TRUE)
    IN [fs |-> w.fs, calls |-> t.calls,
        log |-> t.log \o <<Msg("exception", pr_number)>> \o w.log,
        ctl |-> IF w.raised THEN "crash" ELSE "next"]

\* variant: the loop body without its except clause
ScanBody_NoExcept(fs, i, pr_number, resp, dry_run) ==
    LET t == ScanTry(fs, i, pr_number, resp, dry_run)
    IN [fs |-> t.fs, calls |-> t.calls, log |-> t.log,
        ctl |-> IF t.raised THEN "crash" ELSE "next"]

\* one iteration of the loop over issues
ScanBody(fs, i, pr_number, resp, dry_run) ==
    LET t == ScanTry(fs, i, pr_number, resp, dry_run)
    IN IF t.raised
       THEN ScanExcept(t, pr_number, dry_run)
       ELSE [fs |-> t.fs, calls |-> t.calls, log |-> t.log, ctl |-> "next"]

\* the two argument checks in front of the issue list
ScanArgCheck(a) ==
    IF a.pr = None /\ a.start = None /\ a.end = None THEN "exit1"
    ELSE IF a.pr # None /\ (a.start # None \/ a.end # None) THEN "exit1"
    ELSE "ok"

\* the issue list; range(None, n) and range(n, None) raise TypeError
ScanIssues(a) ==
    IF a.pr # None THEN [raised |-> FALSE, issues |-> TheVal(a.pr)]
    ELSE IF a.start = None \/ a.end = None THEN [raised |-> TRUE, issues |-> <<>>]
    ELSE [raised |-> FALSE, issues |-> RangeSeq(TheVal(a.start), TheVal(a.end))]

ScanArgs ==
    [pr : {None} \cup {Some(s) : s \in SeqsUpTo(ScanPRs, MaxItems)},
     start : {None} \cup {Some(n) : n \in RangeVals},
     end : {None} \cup {Some(n) : n \in RangeVals},
     dry_run : BOOLEAN]

NoRepo == [exists |-> FALSE, github |-> None]

ScanInit ==
    /\ prog = "scanner"
    /\ pc = "start"
    /\ args \in ScanArgs
    /\ env \in [token_set : BOOLEAN]
    /\ state_dir \in BOOLEAN
    /\ items = <<>> /\ idx = 1
    /\ files = NoFiles
    /\ calls = <<>> /\ log = <<>> /\ resps = <<>>
    /\ bb_tags = {} /\ repo = NoRepo

\* main() up to the loop
ScanSetup ==
    /\ prog = "scanner" /\ pc = "start"
    /\ LET chk == ScanArgCheck(args)
           iss == ScanIssues(args)
       IN IF ~env.token_set \/ chk = "exit1"
          THEN pc' = "exit1" /\ UNCHANGED <<items, state_dir>>
          ELSE IF iss.raised
          THEN pc' = "crash" /\ UNCHANGED <<items, state_dir>>
          ELSE /\ pc' = "loop"
               /\ items' = iss.issues
               /\ state_dir' = (state_dir \/ ~args.dry_run)
    /\ UNCHANGED <<prog, args, env, idx, files, calls, log, resps, bb_tags, repo>>

\* one iteration of the loop
ScanItem ==
    /\ prog = "scanner" /\ pc = "loop" /\ idx <= Len(items)
    /\ \E resp \in ScanResps :
         LET b == ScanBody(files, idx, items[idx], resp, args.dry_run)
         IN /\ files' = b.fs
            /\ calls' = calls \o b.calls
            /\ log' = log \o b.log
            /\ resps' = Append(resps, resp)
            /\ IF b.ctl = "crash"
               THEN pc' = "crash" /\ idx' = idx
               ELSE pc' = pc /\ idx' = idx + 1
    /\ UNCHANGED <<prog, args, env, items, state_dir, bb_tags, repo>>

\* the loop is exhausted: 'Done!'
ScanDone ==
    /\ prog = "scanner" /\ pc = "loop" /\ idx > Len(items)
    /\ pc' = "done"
    /\ UNCHANGED <<prog, args, env, items, idx, state_dir, files, calls, log, resps, bb_tags, repo>>

(* ======================== the transfer utility ========================= *)
\* PR ids offered for --pr-ids
TransferPRs == {7, 42}
Commits == {"abc123", "def456"}

GH_REPO_URL == "https://github.com/miroapp-dev/server"
OTHER_URL == "https://github.com/other/server"

\* f"dig-pr_{id}"
tag_name(id) == <<"dig-pr_">> \o Str(id)

\* f'refs/tags/{tag_name}:refs/tags/{tag_name}'
refspec(tag) == <<"refs/tags/">> \o tag \o <<":refs/tags/">> \o tag

\* outcomes of bb.get_pull_request: the PR's metadata, an HTTPError with a
\* status code, or another exception
Lookups ==
    {[kind |-> "ok", status |-> 200, commit |-> c] : c \in {None} \cup {Some(h) : h \in Commits}}
    \cup {[kind |-> "http", status |-> s, commit |-> None] : s \in {404, 500}}
    \cup {[kind |-> "raise", status |-> 0, commit |-> None]}

HasTag(tags, name) == \E t \in tags : t.name = name

\* outcomes of bb.set_tag on the source host: a name that exists is
\* refused with 409, a new name is created; any call can fail otherwise
SetTagOutcomes(tags, name) ==
    {[kind |-> "http", status |-> 500], [kind |-> "raise", status |-> 0]}
    \cup (IF HasTag(tags, name) THEN {[kind |-> "http", status |-> 409]}
          ELSE {[kind |-> "ok", status |-> 200]})

NoSetTag == [kind |-> "none", status |-> 0]

PushOutcomes == {"ok", "raise"}

\* the except clauses around bb.get_pull_request: "continue" goes to the
\* next PR, "fall" leaves the try statement and runs on
LookupHandler(lk) ==
    IF lk.kind = "ok" THEN "fall"
    ELSE IF lk.kind = "http" THEN (IF lk.status = 404 THEN "continue" ELSE "fall")
    ELSE "continue"

\* variant: a 409 conflict is not caught
SetTagHandler_Raise409(st) ==
    IF st.kind = "http" THEN (IF st.status = 409 THEN "crash" ELSE "next")
    ELSE IF st.kind = "raise" THEN "next_logged"
    ELSE "next"

\* the except clauses around bb.set_tag: every outcome goes on to the next PR
SetTagHandler(st) ==
    IF st.kind = "http" THEN (IF st.status = 409 THEN "next_logged" ELSE "next")
    ELSE IF st.kind = "raise" THEN "next_logged"
    ELSE "next"

\* variant: a failing push is not caught
PushHandler_NoExcept(res) == IF res = "raise" THEN "crash" ELSE "next"

\* the except clause around repo.remotes.github.push
PushHandler(res) == "next"

\* the PR ids of the push loop: every id of args.pr_ids
PushIds(ids, lg) == ids

\* one iteration of the tagging loop; lk and st are the outcomes of the
\* lookup and of the tag creation (st is used only when the call is made)
TagBody(tags, i, pr, lk, st, dry_run) ==
    LET c0 == <<[op |-> "get_pull_request", i |-> i, pr |-> pr, res |-> lk.kind,
                 status |-> lk.status]>>
        h == LookupHandler(lk)
    IN IF h = "continue"
       THEN [tags |-> tags, calls |-> c0,
             log |-> <<Msg(IF lk.kind = "http" THEN "pr_not_found" ELSE "api_error", pr)>>,
             ctl |-> "next"]
       ELSE IF lk.kind # "ok"
       \* pr is still the int of the loop: pr['fromRef'] raises TypeError
       THEN [tags |-> tags, calls |-> c0, log |-> <<>>, ctl |-> "crash"]
       ELSE IF lk.commit = None
       THEN [tags |-> tags, calls |-> c0, log |-> <<Msg("no_commits", pr)>>, ctl |-> "next"]
       ELSE
         LET commit_hash == TheVal(lk.commit)
             name == tag_name(pr)
             l1 == <<Msg("tagging", pr)>>
         IN IF dry_run
            THEN [tags |-> tags, calls |-> c0, log |-> l1, ctl |-> "next"]
            ELSE
              LET c1 == c0 \o <<[op |-> "set_tag", i |-> i, pr |-> pr, res |-> st.kind,
                                 status |-> st.status, name |-> name, commit |-> commit_hash]>>
                  t1 == IF st.kind = "ok"
                        THEN tags \cup {[name |-> name, commit |-> commit_hash]}
                        ELSE tags
                  sh == SetTagHandler(st)
              IN [tags |-> t1, calls |-> c1,
                  log |-> l1 \o (IF sh = "next_logged"
                                 THEN <<Msg(IF st.kind = "http" THEN "tag_exists" ELSE "api_error", pr)>>
                                 ELSE <<>>),
                  ctl |-> IF sh \in {"next", "next_logged"} THEN "next" ELSE "crash"]

\* variant: the URL of the remote is not compared
UrlCheck_Skip(url, expected) == "api"

\* the check of the 'github' remote after the mirror is opened
UrlCheck(url, expected) == IF url # expected THEN "exit1" ELSE "api"

TransferArgs ==
    [pr_ids : {None} \cup {Some(s) : s \in SeqsUpTo(TransferPRs, MaxItems)},
     dry_run : BOOLEAN,
     gh_repo_url : {GH_REPO_URL}]

Repos ==
    {NoRepo} \cup {[exists |-> TRUE, github |-> g] :
                      g \in {None, Some(GH_REPO_URL), Some(OTHER_URL)}}

TransferInit ==
    /\ prog = "transfer"
    /\ pc = "start"
    /\ args \in TransferArgs
    /\ env \in [tokens_ok : BOOLEAN, log_level_ok : BOOLEAN, stdin_tty : BOOLEAN]
    /\ state_dir = FALSE
    /\ items = <<>> /\ idx = 1
    /\ files = NoFiles
    /\ calls = <<>> /\ log = <<>> /\ resps = <<>>
    /\ bb_tags \in {{}, {[name |-> tag_name(42), commit |-> "abc123"]}}
    /\ repo \in Repos

\* main() up to the mirror: tokens, arguments, log level, source of PR ids
TransferArgsCheck ==
    /\ prog = "transfer" /\ pc = "start"
    /\ pc' = IF ~env.tokens_ok \/ ~env.log_level_ok
                \/ (args.pr_ids = None /\ env.stdin_tty)
             THEN "exit1" ELSE "repo"
    /\ UNCHANGED <<prog, args, env, items, idx, state_dir, files, calls, log, resps, bb_tags, repo>>

\* open or clone the mirror, add the 'github' remote, check its URL
TransferRepo ==
    /\ prog = "transfer" /\ pc = "repo"
    /\ \E ok \in BOOLEAN :
         LET op == IF repo.exists THEN "fetch_setup" ELSE "clone"
             r1 == IF repo.exists THEN repo ELSE [exists |-> TRUE, github |-> None]
             r2 == IF r1.github = None
                   THEN [r1 EXCEPT !.github = Some(args.gh_repo_url)] ELSE r1
         IN /\ calls' = Append(calls, Call(op, 0, 0, IF ok THEN "ok" ELSE "raise"))
            /\ IF ~ok
               THEN pc' = "crash" /\ repo' = repo
               ELSE repo' = r2 /\ pc' = UrlCheck(TheVal(r2.github), args.gh_repo_url)
    /\ UNCHANGED <<prog, args, env, items, idx, state_dir, files, log, resps, bb_tags>>

\* the Bitbucket API check, then len(args.pr_ids) in front of the loop
TransferApiCheck ==
    /\ prog = "transfer" /\ pc = "api"
    /\ \E ok \in BOOLEAN :
         /\ calls' = Append(calls, Call("project_list", 0, 0, IF ok THEN "ok" ELSE "raise"))
         /\ IF ~ok THEN pc' = "exit1" /\ items' = items
            ELSE IF args.pr_ids = None THEN pc' = "crash" /\ items' = items
            ELSE pc' = "tag_loop" /\ items' = TheVal(args.pr_ids)
    /\ UNCHANGED <<prog, args, env, idx, state_dir, files, log, resps, bb_tags, repo>>

\* one iteration of the tagging loop
TransferTagItem ==
    /\ prog = "transfer" /\ pc = "tag_loop" /\ idx <= Len(items)
    /\ \E lk \in Lookups :
         \E st \in (IF lk.kind = "ok" /\ lk.commit # None /\ ~args.dry_run
                    THEN SetTagOutcomes(bb_tags, tag_name(items[idx]))
                    ELSE {NoSetTag}) :
           LET b == TagBody(bb_tags, idx, items[idx], lk, st, args.dry_run)
           IN /\ bb_tags' = b.tags
              /\ calls' = calls \o b.calls
              /\ log' = log \o b.log
              /\ IF b.ctl = "crash"
                 THEN pc' = "crash" /\ idx' = idx
                 ELSE pc' = pc /\ idx' = idx + 1
    /\ UNCHANGED <<prog, args, env, items, state_dir, files, resps, repo>>

\* 'Done tagging PRs', then the fetch of the tags into the mirror
TransferFetch ==
    /\ prog = "transfer" /\ pc = "tag_loop" /\ idx > Len(items)
    /\ \E ok \in BOOLEAN :
         /\ calls' = Append(calls, Call("fetch", 0, 0, IF ok THEN "ok" ELSE "raise"))
         /\ pc' = IF ok THEN "push_loop" ELSE "crash"
    /\ idx' = 1
    /\ UNCHANGED <<prog, args, env, items, state_dir, files, log, resps, bb_tags, repo>>

\* one iteration of the push loop
TransferPushItem ==
    /\ prog = "transfer" /\ pc = "push_loop" /\ idx <= Len(PushIds(items, log))
    /\ LET pr == PushIds(items, log)[idx]
           name == tag_name(pr)
       IN /\ log' = Append(log, Msg("pushing", pr))
          /\ IF args.dry_run
             THEN calls' = calls /\ pc' = pc /\ idx' = idx + 1
             ELSE \E res \in PushOutcomes :
                    /\ calls' = Append(calls, [op |-> "push", i |-> idx, pr |-> pr, res |-> res,
                                               ref |-> refspec(name)])
                    /\ IF PushHandler(res) = "next"
                       THEN pc' = pc /\ idx' = idx + 1
                       ELSE pc' = "crash" /\ idx' = idx
    /\ UNCHANGED <<prog, args, env, items, state_dir, files, resps, bb_tags, repo>>

\* the push loop is exhausted: main() returns
TransferDone ==
    /\ prog = "transfer" /\ pc = "push_loop" /\ idx > Len(PushIds(items, log))
    /\ pc' = "done"
    /\ UNCHANGED <<prog, args, env, items, idx, state_dir, files, calls, log, resps, bb_tags, repo>>

(* =========================== specification ============================= *)
Init == ScanInit \/ TransferInit

Next ==
    \/ ScanSetup \/ ScanItem \/ ScanDone
    \/ TransferArgsCheck \/ TransferRepo \/ TransferApiCheck
    \/ TransferTagItem \/ TransferFetch \/ TransferPushItem \/ TransferDone

Spec == Init /\ [][Next]_vars

\* every step of a run is taken by the one thread of the process, which
\* blocks only in remote calls that return or raise
FairSpec == Spec /\ WF_vars(Next)

(* ============================== properties ============================= *)
IsScan == prog = "scanner"
IsTransfer == prog = "transfer"
DryRun == args.dry_run

CallIdx == 1..Len(calls)
OpCalls(op) == SelectSeq(calls, LAMBDA c : c.op = op)

\* the scanner's items processed so far
DoneIdx == 1..Len(resps)
LookupRaised(r) == r.lookup = "raise"
DiffRaised(r) == r.lookup = "found" /\ r.commits = 0 /\ r.diff_raise
\* the item's loop body ran to its end on one of the four branches of C1
BodyFinished(r) == ~LookupRaised(r) /\ ~DiffRaised(r)
\* the item reached the write of the resume marker
ReachedMarker(r) == r.lookup = "found" /\ ~DiffRaised(r)

\* Str(items[i]) for the done items i <= k that are in sel, in order
RECURSIVE IdLinesIn(_, _)
IdLinesIn(k, sel) ==
    IF k = 0 THEN <<>>
    ELSE IdLinesIn(k - 1, sel) \o (IF k \in sel THEN <<Str(items[k])>> ELSE <<>>)

\* Str(items[i]) for the done items i whose responses satisfy P, in order
IdLines(k, P(_)) == IdLinesIn(k, {i \in 1..k : P(resps[i])})

CountEq(seq, x) == Cardinality({k \in 1..Len(seq) : seq[k] = x})

(* C1: scanner - after an item's loop body finishes on any branch (not     *)
(* found, broken, zero-commit unclassified, commits > 0) the resume marker *)
(* holds that item's identifier.                                           *)
C1_ResumeMarkerNamesLastItem ==
    (IsScan /\ ~DryRun /\ Len(resps) > 0 /\ BodyFinished(resps[Len(resps)]))
        => files[LAST_ISSUE_FILE].content = Str(items[Len(resps)])

(* C2: scanner - in a non-dry run, once some item has written the resume   *)
(* marker, the marker file holds exactly one identifier, the one most      *)
(* recently written.                                                       *)
C2_MarkerSingleValued ==
    (IsScan /\ ~DryRun /\ IdLines(Len(resps), ReachedMarker) # <<>>)
        => LET w == IdLines(Len(resps), ReachedMarker)
           IN files[LAST_ISSUE_FILE].content = w[Len(w)]

(* C3: transfer, phase 1 - a metadata fetch that fails with an HTTP error  *)
(* other than 404 is logged and skipped: the run is never terminated by    *)
(* it and the loop goes on with the next PR id.                            *)
C3_ProtocolErrorSkipsItem ==
    IsTransfer =>
        \A k \in CallIdx :
            (calls[k].op = "get_pull_request" /\ calls[k].res = "http"
                /\ calls[k].status # 404)
            => /\ pc # "crash"
               /\ \E e \in 1..Len(log) : log[e].pr = calls[k].pr
                      /\ log[e].msg \in {"pr_not_found", "api_error"}

(* C4: scanner - an exception of the PR lookup or of the diff fetch puts   *)
(* the item's identifier into the exceptions log and the loop continues:   *)
(* the items are visited once each, in input order, and the run completes. *)
C4_Visited ==
    LET gp == OpCalls("get_pull")
    IN /\ Len(gp) = Len(resps)
       /\ \A k \in 1..Len(gp) : gp[k].i = k /\ gp[k].pr = items[k]
       /\ Len(resps) > 0 => pc \in {"loop", "done"}
       /\ pc = "loop" => idx = Len(resps) + 1
       /\ pc = "done" => Len(resps) = Len(items)

C4_Recorded ==
    ~DryRun =>
        \A id \in ScanPRs \cup RangeVals :
            CountEq(Lines(files[PR_EXCEPTIONS_FILE].content), Str(id))
              >= Cardinality({i \in DoneIdx : items[i] = id
                                /\ (LookupRaised(resps[i]) \/ DiffRaised(resps[i]))})

C4_ExceptionsRecordedLoopCompletes ==
    /\ [](IsScan => C4_Visited /\ C4_Recorded)
    /\ ((IsScan /\ pc = "loop") ~> (pc = "done"))

C4_Witness ==
    /\ IsScan /\ ~DryRun /\ pc = "done" /\ Len(items) = 2
    /\ LookupRaised(resps[1]) /\ DiffRaised(resps[2])
    /\ Lines(files[PR_EXCEPTIONS_FILE].content) = <<Str(items[1]), Str(items[2])>>

\* the console log the same responses produce in a run without --dry-run
RECURSIVE NonDryRun(_)
NonDryRun(k) ==
    IF k = 0 THEN [fs |-> NoFiles, log |-> <<>>]
    ELSE LET p == NonDryRun(k - 1)
             b == ScanBody(p.fs, k, items[k], resps[k], FALSE)
         IN [fs |-> b.fs, log |-> p.log \o b.log]

Decisions(l) == SelectSeq(l, LAMBDA e : e.msg # "dry_write")

(* C5: in a dry run no output file is created or modified by the scanner   *)
(* and no tag-create or push call is issued by the transfer utility, and   *)
(* each item follows the branch it follows in a non-dry run.               *)
C5_DryRunSameDecisionsNoEffects ==
    DryRun =>
        /\ IsScan => /\ files = NoFiles
                     /\ Decisions(log) = Decisions(NonDryRun(Len(resps)).log)
        /\ IsTransfer => \A k \in CallIdx : calls[k].op \notin {"set_tag", "push"}

\* the arguments do not select exactly one input mode
BadMode(a) ==
    \/ a.pr # None /\ (a.start # None \/ a.end # None)
    \/ a.pr = None /\ (a.start = None \/ a.end = None)

\* the 'github' remote of the mirror has another URL than the expected one
UrlMismatch == repo.exists /\ repo.github \notin {None, Some(args.gh_repo_url)}

C6_ScannerPart ==
    (IsScan /\ pc # "start" /\ BadMode(args))
        => pc \in {"exit1", "crash"} /\ calls = <<>>

(* C6 as claimed: a bad input mode (scanner) or a URL mismatch of the      *)
(* destination remote (transfer) ends the process non-zero before any      *)
(* remote call is made.                                                    *)
C6_ConfigErrorBeforeAnyRemoteCall ==
    /\ C6_ScannerPart
    /\ (IsTransfer /\ UrlMismatch /\ pc \notin {"start", "repo", "crash"})
           => pc = "exit1" /\ calls = <<>>

(* C6 as amended: a bad input mode ends the scanner non-zero before any    *)
(* remote call; a URL mismatch ends the transfer utility with exit(1)      *)
(* after the tag-refresh fetch of the existing mirror and before any       *)
(* Bitbucket API call, tag creation, phase-2 fetch or push.                *)
C6_ConfigErrorBeforeApiCalls ==
    /\ C6_ScannerPart
    /\ (IsTransfer /\ UrlMismatch /\ pc \notin {"start", "repo", "crash"})
           => /\ pc = "exit1"
              /\ Len(calls) <= 1
              /\ \A k \in CallIdx : calls[k].op = "fetch_setup"

C6_Witness ==
    IsTransfer /\ UrlMismatch /\ pc = "exit1"
        /\ calls = <<Call("fetch_setup", 0, 0, "ok")>>

(* C7: scanner - a diff fetch is issued only for an item whose lookup      *)
(* succeeded with zero commits; the not-found log holds exactly the items  *)
(* whose lookup returned not-found, the broken log exactly the items found *)
(* with zero commits whose diff fetch returned 404 or 422.                 *)
C7_IsNotFound(r) == r.lookup = "unknown"
C7_IsBroken(r) ==
    r.lookup = "found" /\ r.commits = 0 /\ ~r.diff_raise /\ r.diff_status \in {404, 422}

C7_DiffOnlyForZeroCommits ==
    IsScan =>
        /\ \A k \in CallIdx :
              calls[k].op = "get_diff"
              => resps[calls[k].i].lookup = "found" /\ resps[calls[k].i].commits = 0
        /\ ~DryRun =>
              /\ Lines(files[PR_NOT_FOUND_FILE].content) = IdLines(Len(resps), C7_IsNotFound)
              /\ Lines(files[BROKEN_PRS_FILE].content) = IdLines(Len(resps), C7_IsBroken)

C7_Witness ==
    /\ IsScan /\ ~DryRun /\ pc = "done" /\ Len(items) = 2
    /\ Lines(files[BROKEN_PRS_FILE].content) = <<Str(18057)>>
    /\ Lines(files[PR_NOT_FOUND_FILE].content) = <<Str(99999999)>>
    /\ Len(OpCalls("get_diff")) = 1

(* C8: transfer - every tag-create call precedes the fetch of the tags,    *)
(* the fetch precedes every push, and a failed push does not stop the      *)
(* pushes of the remaining tags.                                           *)
C8_TwoPhaseOrder ==
    IsTransfer =>
        /\ \A a, b \in CallIdx :
              /\ (calls[a].op = "set_tag" /\ calls[b].op = "fetch") => a < b
              /\ (calls[a].op = "fetch" /\ calls[b].op = "push") => a < b
        /\ \A b \in CallIdx :
              calls[b].op = "push"
              => /\ \E a \in 1..(b - 1) : calls[a].op = "fetch" /\ calls[a].res = "ok"
                 /\ pc \in {"push_loop", "done"}
        /\ (~DryRun /\ pc \in {"push_loop", "done"})
              => LET ps == OpCalls("push")
                 IN /\ Len(ps) = idx - 1
                    /\ \A k \in 1..Len(ps) : ps[k].ref = refspec(tag_name(items[k]))
        /\ pc = "done" => idx = Len(items) + 1

C8_Witness ==
    /\ IsTransfer /\ pc = "done"
    /\ Len(OpCalls("set_tag")) = 2
    /\ LET ps == OpCalls("push")
       IN Len(ps) = 2 /\ ps[1].res = "raise" /\ ps[2].res = "ok"

(* C9: transfer - creating tag dig-pr_<id> at the commit it is already     *)
(* bound to is answered 409 and treated as success: the host holds one tag *)
(* of that name, bound to that commit, the loop goes on to the next item   *)
(* and phase 2 pushes the tag.                                             *)
C9_SameTag(c) ==
    c.op = "set_tag" /\ c.status \in {200, 409}
        /\ [name |-> c.name, commit |-> c.commit] \in bb_tags

C9_TagCreateIdempotent ==
    IsTransfer =>
        \A k \in CallIdx :
            C9_SameTag(calls[k])
            => /\ {t \in bb_tags : t.name = calls[k].name}
                    = {[name |-> tag_name(calls[k].pr), commit |-> calls[k].commit]}
               /\ k = Len(calls) => pc = "tag_loop" /\ idx = calls[k].i + 1
               /\ pc = "done"
                    => \E p \in CallIdx : calls[p].op = "push" /\ p > k
                          /\ calls[p].ref = refspec(calls[k].name)

C9_Witness ==
    /\ IsTransfer /\ pc = "done"
    /\ LET st == OpCalls("set_tag")
       IN /\ Len(st) = 2
          /\ st[1].status = 200 /\ st[2].status = 409
          /\ st[1].name = st[2].name /\ st[1].commit = st[2].commit
          /\ C9_SameTag(st[2])

(* C10: transfer - phase 2 attempts a push only for the PR ids for which   *)
(* phase 1 computed a tag, never for a PR id that phase 1 skipped.         *)
C10_PushOnlyComputedTags ==
    IsTransfer =>
        \A p \in CallIdx :
            calls[p].op = "push"
            => \E e \in 1..Len(log) : log[e].msg = "tagging" /\ log[e].pr = calls[p].pr
====
